---- MODULE Spec2Model ----
(***************************************************************************)
(* CIndexStoreDB: the C interface of IndexStoreDB.                         *)
(*                                                                         *)
(* The model follows lib/CIndexStoreDB/CIndexStoreDB.cpp: the reference    *)
(* counted wrapper objects (IndexStoreDBObject<T>), the error objects, the *)
(* streaming queries with their receiver callbacks, the accessors that     *)
(* create new handles or hand out borrowed pointers, and the role          *)
(* constants of CIndexStoreDB.h.                                           *)
(***************************************************************************)
EXTENDS Integers, Sequences, FiniteSets, TLC

(***************************************************************************)
(* Bounds of the exploration.                                              *)
(***************************************************************************)
\* Objects allocated by make_object in one run.
MaxObjects == 4
\* References the caller holds beyond the first one of each handle.
MaxRetains == 1
\* Successful indexstoredb_index_create calls, and successful
\* indexstoredb_load_indexstore_library calls.
MaxOpens == 1
\* Error objects allocated in one run.
MaxErrors == 2
\* Role enumerators evaluated in one run.
MaxRoleExprs == 2
\* Calls of indexstoredb_symbol_kind in one run.
MaxKindCalls == 2

(***************************************************************************)
(* Role bits.  A role set is a 64-bit unsigned value; it is modelled as    *)
(* the set of the positions of its 1 bits (0 = least significant).         *)
(***************************************************************************)
UInt64Bits == 0..63
\* Width of the C type int, the type of the literal 1 in "1 << n".
IntWidth == 32

\* The value of the C expression "1 << n" (operands of type int) converted
\* to uint64_t.  For n < 31 the result is the int 2^n.  For n = 31 the int
\* is INT_MIN, whose conversion to 64 bits sign-extends.  For n >= 32 the
\* shift count is not less than the width of int: the behaviour is
\* undefined and the result is whatever the build produces (the expected
\* bit, zero, the count taken modulo the width, or INT_MIN as for n = 31).
ShiftLeftInt(n) ==
  IF n < IntWidth - 1 THEN {{n}}
  ELSE IF n = IntWidth - 1 THEN {(IntWidth - 1)..63}
  ELSE { {n}, {}, (IntWidth - 1)..63,
         IF n % IntWidth = IntWidth - 1 THEN (IntWidth - 1)..63 ELSE {n % IntWidth} }

\* indexstoredb_symbol_role_t: the shift count each enumerator is written with.
RoleShift ==
  [ DECLARATION |-> 0, DEFINITION |-> 1, REFERENCE |-> 2, READ |-> 3,
    WRITE |-> 4, CALL |-> 5, DYNAMIC |-> 6, ADDRESSOF |-> 7, IMPLICIT |-> 8,
    REL_CHILDOF |-> 9, REL_BASEOF |-> 10, REL_OVERRIDEOF |-> 11,
    REL_RECEIVEDBY |-> 12, REL_CALLEDBY |-> 13, REL_EXTENDEDBY |-> 14,
    REL_ACCESSOROF |-> 15, REL_CONTAINEDBY |-> 16, REL_IBTYPEOF |-> 17,
    REL_SPECIALIZATIONOF |-> 18, CANONICAL |-> 63 ]

OccurrenceRoleNames ==
  { "DECLARATION", "DEFINITION", "REFERENCE", "READ", "WRITE", "CALL",
    "DYNAMIC", "ADDRESSOF", "IMPLICIT" }
RelationRoleNames ==
  { "REL_CHILDOF", "REL_BASEOF", "REL_OVERRIDEOF", "REL_RECEIVEDBY",
    "REL_CALLEDBY", "REL_EXTENDEDBY", "REL_ACCESSOROF", "REL_CONTAINEDBY",
    "REL_IBTYPEOF", "REL_SPECIALIZATIONOF" }
RoleNames == OccurrenceRoleNames \cup RelationRoleNames \cup {"CANONICAL"}

(***************************************************************************)
(* The index collaborator's content (IndexSystem is not part of the        *)
(* interface file; its data is fixed here).  One record per recorded       *)
(* occurrence: the symbol's USR and name, the role bits (those of its      *)
(* relations included), the location and the relations it owns.            *)
(***************************************************************************)
FooBarName == << "f", "o", "o", "B", "a", "r" >>
BarName == << "b", "a", "r" >>

IndexOccs ==
  << [ usr |-> "c:@F@fooBar", name |-> FooBarName, roles |-> {1, 63},
       path |-> "a.c", line |-> 3, col |-> 5, rels |-> << >> ],
     [ usr |-> "c:@F@fooBar", name |-> FooBarName, roles |-> {2, 5, 13, 16},
       path |-> "b.c", line |-> 10, col |-> 1,
       rels |-> << [ roles |-> {13}, usr |-> "c:@F@bar" ],
                   [ roles |-> {16}, usr |-> "c:@F@bar" ] >> ] >>

OccIds == 1..Len(IndexOccs)

\* The names of the symbols the index knows, those the relations refer to
\* included, in the order the index enumerates them.
IndexNames == << FooBarName, BarName, FooBarName >>

\* Messages IndexSystem::create / loadIndexStoreLibrary write to errMsg.
FailureMessages == {"cannot open store", "cannot load library"}

(***************************************************************************)
(* State.                                                                  *)
(*  objs     the IndexStoreDBObject<T> instances in allocation order; a    *)
(*           handle is an index into objs, 0 is the null handle            *)
(*  shared   the payloads held through std::shared_ptr, with use counts    *)
(*  owned    per object, the references the caller currently owns          *)
(*  errors   the IndexStoreDBError instances in allocation order           *)
(*  errorOut the caller's indexstoredb_error_t variable (0 = null)         *)
(*  call     the streaming call in progress; after its return, for one     *)
(*           step, the value it returned (result)                          *)
(*  ret      the handle the last step returned to the caller (0 = null or  *)
(*           no handle returned)                                           *)
(*  loc      the location pointer the caller holds (Ptr(0,0) = none)       *)
(*  thr      per thread, the Retain()/Release() it is executing            *)
(*  roleExpr the role enumerators the build has evaluated                  *)
(*  match    the last name tried against a pattern, with the outcome       *)
(*  kinds    the symbol kinds asked for so far, with the values returned   *)
(***************************************************************************)
VARIABLES objs, shared, owned, errors, errorOut, call, ret, loc, thr, roleExpr, match,
          kinds

vars == << objs, shared, owned, errors, errorOut, call, ret, loc, thr, roleExpr, match, kinds >>

Handles == 1..Len(objs)

(***************************************************************************)
(* std::shared_ptr payloads.  shared[p].uses[1] is the use count of the    *)
(* payload itself; for a SymbolOccurrence uses[2] is the use count of the  *)
(* Symbol it refers to and uses[2+i] that of the Symbol of its i-th        *)
(* relation.  A pointer is a pair [p, slot].                               *)
(***************************************************************************)
Ptr(p, slot) == [p |-> p, slot |-> slot]

\* Copying a shared_ptr.
SharedCopy(sh, v) == [sh EXCEPT ![v.p].uses[v.slot] = @ + 1]

\* Destroying a shared_ptr.  When the last owner of an occurrence goes, the
\* occurrence is destroyed and with it the Symbol references it holds.
SharedDrop(sh, v) ==
  LET n == sh[v.p].uses[v.slot] - 1 IN
  IF v.slot = 1 /\ n = 0
    THEN [sh EXCEPT ![v.p].uses =
            [i \in DOMAIN @ |-> IF i = 1 THEN 0 ELSE @[i] - 1]]
    ELSE [sh EXCEPT ![v.p].uses[v.slot] = n]

\* Is the storage a pointer refers to still allocated?
Allocated(sh, v) == sh[v.p].uses[v.slot] > 0

\* A payload as the collaborator creates it, owned by one shared_ptr.
NewPayload(type, data, nsyms) ==
  [type |-> type, data |-> data, uses |-> [i \in 1..(1 + nsyms) |-> 1]]

(***************************************************************************)
(* IndexStoreDBObjectBase / IndexStoreDBObject<T>.                         *)
(***************************************************************************)
\* A plain int count (RefCountedBase): the update writes back the value the
\* thread read when it entered, plus delta.
RefCountUpdate_NonAtomic(current, observed, delta) == observed + delta

\* The reference count is the std::atomic<int> of ThreadSafeRefCountedBase:
\* an update is one indivisible read-modify-write of the current value,
\* whatever value the updating thread may have observed before.
RefCountUpdate(current, observed, delta) == current + delta

\* new IndexStoreDBObject<T>(value): the count starts at 0.  rel is the
\* index of the relation a SymbolRelation object was copied from, else 0.
NewObject(kind, value, rel) ==
  [kind |-> kind, rc |-> 0, live |-> TRUE, dtor |-> 0, value |-> value, rel |-> rel]

\* A make_object that forgets the Retain(): the object leaves with count 0.
make_object_NoRetain(kind, value, rel) == NewObject(kind, value, rel)

\* make_object: allocate, Retain() once, return the object.
make_object(kind, value, rel) ==
  [NewObject(kind, value, rel) EXCEPT !.rc = RefCountUpdate(@, @, 1)]

\* Retain() on object h by a thread that observed count `observed`.
Retain(os, h, observed) ==
  [os EXCEPT ![h].rc = RefCountUpdate(@, observed, 1)]

\* What is left of an object that was deleted: its memory is freed, only
\* the number of times it was destroyed is kept.
Freed(dtor) ==
  [kind |-> "freed", rc |-> 0, live |-> FALSE, dtor |-> dtor,
   value |-> [p |-> 0, slot |-> 0], rel |-> 0]

\* A Release() that decrements but never deletes the object.
Release_NoDelete(os, h, observed) ==
  [os EXCEPT ![h].rc = RefCountUpdate(@, observed, -1)]

\* Release() on object h: decrement, and delete the object at zero.
Release(os, h, observed) ==
  LET n == RefCountUpdate(os[h].rc, observed, -1) IN
  IF n = 0 THEN [os EXCEPT ![h] = Freed(os[h].dtor + 1)]
  ELSE [os EXCEPT ![h].rc = n]

\* A destructor that leaves the wrapped value behind.
ReleaseValue_Keep(os, sh, h, observed) == sh

\* A destructor of the index object that takes down every payload with it.
ReleaseValue_IndexOwnsAll(os, sh, h, observed) ==
  IF os[h].live /\ RefCountUpdate(os[h].rc, observed, -1) = 0
    THEN IF os[h].kind = "index"
           THEN [p \in DOMAIN sh |-> [sh[p] EXCEPT !.uses = [i \in DOMAIN @ |-> 0]]]
           ELSE SharedDrop(sh, os[h].value)
    ELSE sh

\* ~IndexStoreDBObject<T>: the wrapped value is destroyed with the object.
ReleaseValue(os, sh, h, observed) ==
  IF os[h].live /\ RefCountUpdate(os[h].rc, observed, -1) = 0
    THEN SharedDrop(sh, os[h].value)
    ELSE sh

\* Threads that call the interface; streaming calls are issued by the first.
Threads == {1, 2}
MainThread == CHOOSE t \in Threads : \A u \in Threads : t <= u

\* A thread that is not inside indexstoredb_retain / indexstoredb_release.
IdleThread == [pc |-> "idle", h |-> 0, observed |-> 0]

\* References held beyond the first one, over all handles.
RECURSIVE ExtraRefs(_, _)
ExtraRefs(own, n) ==
  IF n = 0 THEN 0
  ELSE ExtraRefs(own, n - 1) + (IF own[n] > 1 THEN own[n] - 1 ELSE 0)

\* The objects of one kind allocated so far.
OfKind(kind) == {h \in 1..Len(objs) : objs[h].kind = kind}

NullPtr == Ptr(0, 0)

NoCall ==
  [op |-> "none", pc |-> "idle", thread |-> 0, cbThread |-> 0, target |-> 0,
   pending |-> << >>, invoked |-> 0, stoppedAt |-> 0,
   result |-> "none", cbObj |-> 0, cbPtr |-> NullPtr]

Idle == call.pc = "idle"


(***************************************************************************)
(* indexstoredb_index_create / indexstoredb_load_indexstore_library.       *)
(* ok and msg are the collaborator's outcome (IndexSystem::create,         *)
(* loadIndexStoreLibrary); hasErr says whether the caller passed a         *)
(* non-null error out-parameter (the address of errorOut).                 *)
(***************************************************************************)
\* An error object that drops the message.
NewError_NoMessage(msg) == [message |-> "", live |-> TRUE]

\* new IndexStoreDBError(errMsg)
NewError(msg) == [message |-> msg, live |-> TRUE]

Create(kind, type, ok, hasErr, msg) ==
  /\ Idle
  /\ IF ok
       THEN /\ Len(objs) < MaxObjects
            /\ Cardinality(OfKind(kind)) < MaxOpens
            /\ LET v == Ptr(Len(shared) + 1, 1) IN
               /\ objs' = Append(objs, make_object(kind, v, 0))
               \* make_object copies the shared_ptr, the local one dies at return
               /\ shared' = SharedDrop(SharedCopy(
                               Append(shared, NewPayload(type, 0, 0)), v), v)
               /\ owned' = Append(owned, 1)
               /\ ret' = Len(objs) + 1
            /\ UNCHANGED << errors, errorOut >>
       ELSE /\ IF hasErr
                 THEN /\ Len(errors) < MaxErrors
                      /\ errors' = Append(errors, NewError(msg))
                      /\ errorOut' = Len(errors) + 1
                 ELSE UNCHANGED << errors, errorOut >>
            /\ ret' = 0
            /\ UNCHANGED << objs, shared, owned >>
  /\ call' = NoCall
  /\ UNCHANGED << loc, thr, roleExpr, match, kinds >>

index_create(ok, hasErr, msg) == Create("index", "IndexSystem", ok, hasErr, msg)

load_indexstore_library(ok, hasErr, msg) ==
  Create("library", "IndexStoreLibrary", ok, hasErr, msg)

\* The calls with a null error out-parameter ...
indexstoredb_index_create ==
  \E ok \in BOOLEAN, msg \in FailureMessages : index_create(ok, FALSE, msg)

indexstoredb_load_indexstore_library ==
  \E ok \in BOOLEAN, msg \in FailureMessages : load_indexstore_library(ok, FALSE, msg)

\* ... and with the address of errorOut.
indexstoredb_index_create_error ==
  \E ok \in BOOLEAN, msg \in FailureMessages : index_create(ok, TRUE, msg)

indexstoredb_load_indexstore_library_error ==
  \E ok \in BOOLEAN, msg \in FailureMessages : load_indexstore_library(ok, TRUE, msg)

(***************************************************************************)
(* indexstoredb_retain / indexstoredb_release.  The caller passes null (0)  *)
(* or a handle it owns a reference of, between streaming calls; both       *)
(* functions touch the object only if the handle is not null.              *)
(***************************************************************************)
\* A retain without the test for null: the increment through the null
\* pointer lands in the objects that are allocated.
RetainIfNonNull_NoTest(os, h, observed) ==
  IF h # 0 THEN Retain(os, h, observed)
  ELSE [i \in DOMAIN os |-> [os[i] EXCEPT !.rc = @ + 1]]

\* if (obj) obj->Retain();
RetainIfNonNull(os, h, observed) ==
  IF h # 0 THEN Retain(os, h, observed) ELSE os

\* if (obj) obj->Release();
ReleaseIfNonNull(os, h, observed) ==
  IF h # 0 THEN Release(os, h, observed) ELSE os

ReleaseValueIfNonNull(os, sh, h, observed) ==
  IF h # 0 THEN ReleaseValue(os, sh, h, observed) ELSE sh

\* The count a call on handle h finds (nothing for null).
ObservedCount(h) == IF h # 0 THEN objs[h].rc ELSE 0

\* The references the caller holds after giving or taking one of handle h.
OwnedAfter(h, delta) ==
  IF h # 0 THEN [owned EXCEPT ![h] = @ + delta] ELSE owned

retain(h) ==
  /\ h # 0 => (h \in Handles /\ owned[h] > 0)
  /\ Idle
  /\ h # 0 => ExtraRefs(owned, Len(owned)) < MaxRetains
  /\ objs' = RetainIfNonNull(objs, h, ObservedCount(h))
  /\ owned' = OwnedAfter(h, 1)
  /\ ret' = h
  /\ call' = NoCall
  /\ UNCHANGED << shared, errors, errorOut, loc, thr, roleExpr, match, kinds >>

release(h) ==
  /\ h # 0 => (h \in Handles /\ owned[h] > 0)
  /\ Idle
  /\ objs' = ReleaseIfNonNull(objs, h, ObservedCount(h))
  /\ shared' = ReleaseValueIfNonNull(objs, shared, h, ObservedCount(h))
  /\ owned' = OwnedAfter(h, -1)
  /\ ret' = 0
  /\ call' = NoCall
  /\ UNCHANGED << errors, errorOut, loc, thr, roleExpr, match, kinds >>

indexstoredb_retain == \E h \in Handles \cup {0} : retain(h)

indexstoredb_release == \E h \in Handles \cup {0} : release(h)

(***************************************************************************)
(* indexstoredb_retain / indexstoredb_release called from several threads  *)
(* at once.  A call is two steps: the thread enters the call and observes  *)
(* the count, then Retain()/Release() updates the count.  A reference is   *)
(* given up when its release call is entered, gained when a retain call    *)
(* returns; the reference a retain call relies on is not released while    *)
(* the call runs.                                                          *)
(***************************************************************************)
InRetain(h) == {t \in Threads : thr[t].pc = "retain" /\ thr[t].h = h}

thread_retain_enter(t, h) ==
  /\ thr[t].pc = "idle"
  /\ h # 0 => /\ h \in Handles
              /\ owned[h] > 0
              /\ ExtraRefs(owned, Len(owned))
                   + Cardinality({u \in Threads : thr[u].pc = "retain" /\ thr[u].h # 0})
                   < MaxRetains
  /\ thr' = [thr EXCEPT ![t] = [pc |-> "retain", h |-> h, observed |-> ObservedCount(h)]]
  /\ UNCHANGED << objs, shared, owned, errors, errorOut, call, ret, loc, roleExpr, match, kinds >>

thread_retain_return(t) ==
  /\ thr[t].pc = "retain"
  /\ objs' = RetainIfNonNull(objs, thr[t].h, thr[t].observed)
  /\ owned' = OwnedAfter(thr[t].h, 1)
  /\ ret' = thr[t].h
  /\ thr' = [thr EXCEPT ![t] = IdleThread]
  /\ UNCHANGED << shared, errors, errorOut, call, loc, roleExpr, match, kinds >>

thread_release_enter(t, h) ==
  /\ thr[t].pc = "idle"
  /\ h # 0 => /\ h \in Handles
              /\ owned[h] > (IF InRetain(h) = {} THEN 0 ELSE 1)
  /\ owned' = OwnedAfter(h, -1)
  /\ thr' = [thr EXCEPT ![t] = [pc |-> "release", h |-> h, observed |-> ObservedCount(h)]]
  /\ UNCHANGED << objs, shared, errors, errorOut, call, ret, loc, roleExpr, match, kinds >>

thread_release_return(t) ==
  /\ thr[t].pc = "release"
  /\ objs' = ReleaseIfNonNull(objs, thr[t].h, thr[t].observed)
  /\ shared' = ReleaseValueIfNonNull(objs, shared, thr[t].h, thr[t].observed)
  /\ ret' = 0
  /\ thr' = [thr EXCEPT ![t] = IdleThread]
  /\ UNCHANGED << owned, errors, errorOut, call, loc, roleExpr, match, kinds >>

concurrent_retain_enter ==
  \E t \in Threads, h \in Handles \cup {0} : thread_retain_enter(t, h)

concurrent_retain_return == \E t \in Threads : thread_retain_return(t)

concurrent_release_enter ==
  \E t \in Threads, h \in Handles \cup {0} : thread_release_enter(t, h)

concurrent_release_return == \E t \in Threads : thread_release_return(t)

(***************************************************************************)
(* The enumerators of indexstoredb_symbol_role_t as the build evaluates    *)
(* them: each is the expression 1 << n.                                    *)
(***************************************************************************)
EvalRole(r) ==
  /\ Len(roleExpr) < MaxRoleExprs
  /\ \E v \in ShiftLeftInt(RoleShift[r]) :
       roleExpr' = Append(roleExpr, [name |-> r, value |-> v])
  /\ UNCHANGED << objs, shared, owned, errors, errorOut, call, ret, loc, thr, match, kinds >>

symbol_role_enumerator == \E r \in RoleNames : EvalRole(r)

(***************************************************************************)
(* The index collaborator's lookups (IndexSystem::foreach...).  Each       *)
(* yields the matching occurrences, as indexes into IndexOccs, in index    *)
(* order.                                                                  *)
(***************************************************************************)
\* A role mask of 0 filters nothing; otherwise one common bit is needed.
RoleMatch(roles, mask) == mask = {} \/ roles \cap mask # {}

\* The occurrences in index order.
OccSeq == [i \in OccIds |-> i]

foreachSymbolOccurrenceByUSR(usr, roles) ==
  LET P(i) == IndexOccs[i].usr = usr /\ RoleMatch(IndexOccs[i].roles, roles)
  IN SelectSeq(OccSeq, P)

foreachRelatedSymbolOccurrenceByUSR(usr, roles) ==
  LET P(i) == /\ \E k \in DOMAIN IndexOccs[i].rels : IndexOccs[i].rels[k].usr = usr
              /\ RoleMatch(IndexOccs[i].roles, roles)
  IN SelectSeq(OccSeq, P)

foreachSymbolOccurrenceAtLocation(path, line, col, roles) ==
  LET P(i) == /\ IndexOccs[i].path = path
              /\ IndexOccs[i].line = line
              /\ IndexOccs[i].col = col
              /\ RoleMatch(IndexOccs[i].roles, roles)
  IN SelectSeq(OccSeq, P)

\* Every distinct name once: the first entry that carries it.
foreachSymbolName ==
  LET P(i) == \A j \in 1..(i - 1) : IndexNames[j] # IndexNames[i]
  IN SelectSeq([i \in DOMAIN IndexNames |-> i], P)

foreachCanonicalSymbolOccurrenceByName(name) ==
  LET P(i) == IndexOccs[i].name = name /\ 63 \in IndexOccs[i].roles
  IN SelectSeq(OccSeq, P)

\* The name matcher.
ToLower(c) ==
  CASE c = "B" -> "b" [] c = "F" -> "f" [] c = "Z" -> "z" [] OTHER -> c

Fold(s, ignoreCase) == IF ignoreCase THEN [i \in DOMAIN s |-> ToLower(s[i])] ELSE s

IsPrefix(p, s) == Len(p) <= Len(s) /\ SubSeq(s, 1, Len(p)) = p

IsSuffix(p, s) == Len(p) <= Len(s) /\ SubSeq(s, Len(s) - Len(p) + 1, Len(s)) = p

IsSubstring(p, s) ==
  \E k \in 0..(Len(s) - Len(p)) : SubSeq(s, k + 1, k + Len(p)) = p

RECURSIVE IsSubsequence(_, _)
IsSubsequence(p, s) ==
  IF p = << >> THEN TRUE
  ELSE IF s = << >> THEN FALSE
  ELSE IF Head(p) = Head(s) THEN IsSubsequence(Tail(p), Tail(s))
  ELSE IsSubsequence(p, Tail(s))

matchesPattern(name, pattern, anchorStart, anchorEnd, subsequence, ignoreCase) ==
  LET n == Fold(name, ignoreCase)
      p == Fold(pattern, ignoreCase)
  IN IF subsequence
       THEN /\ IsSubsequence(p, n)
            /\ (anchorStart /\ p # << >>) => (n # << >> /\ n[1] = p[1])
            /\ (anchorEnd /\ p # << >>) => (n # << >> /\ n[Len(n)] = p[Len(p)])
       ELSE /\ IsSubstring(p, n)
            /\ anchorStart => IsPrefix(p, n)
            /\ anchorEnd => IsSuffix(p, n)

foreachCanonicalSymbolOccurrenceContainingPattern(pattern, aStart, aEnd, subseq, icase) ==
  LET P(i) == /\ 63 \in IndexOccs[i].roles
              /\ matchesPattern(IndexOccs[i].name, pattern, aStart, aEnd, subseq, icase)
  IN SelectSeq(OccSeq, P)

(***************************************************************************)
(* Arguments the caller passes to the queries.                             *)
(***************************************************************************)
QueryUSRs == {"c:@F@fooBar", "c:@F@bar", "c:@F@missing"}
QueryRoles == {{}, {1}, {2}, {63}}
QueryLocations == {<< "a.c", 3, 5 >>, << "b.c", 10, 1 >>, << "missing.c", 1, 1 >>}
QueryNames == {FooBarName, BarName, << "z" >>}
QueryPatterns == {<< "b", "a", "r" >>, << "f", "b" >>}

\* A role mask cut to the 32 bits of an int on its way to the index.
SymbolRoleSetOf_Int(roles) == roles \cap (0..(IntWidth - 1))

\* (SymbolRoleSet)roles: the uint64_t mask as the role set of the index.
SymbolRoleSetOf(roles) == roles \cap UInt64Bits

(***************************************************************************)
(* Streaming calls.  A call begins (pc = "running"), invokes the callback  *)
(* (pc = "inCallback") once per delivered match, and returns (pc = "idle", *)
(* result set).                                                            *)
(***************************************************************************)
OccurrenceQueries ==
  { "symbol_occurrences_by_usr", "related_symbol_occurrences_by_usr",
    "symbol_occurrences_at_location", "canonical_symbol_occurences_by_name",
    "canonical_symbol_occurences_containing_pattern" }
IndexQueries == OccurrenceQueries \cup {"symbol_names"}
StreamingOps == IndexQueries \cup {"symbol_occurrence_relations"}

\* Entry of a streaming function on object h by thread t; `creates` says
\* whether each callback receives a new object.
Begin(op, t, h, kind, matches, creates) ==
  /\ Idle
  /\ h \in Handles
  /\ owned[h] > 0
  /\ objs[h].kind = kind
  /\ creates => Len(objs) + Len(matches) <= MaxObjects
  /\ call' = [NoCall EXCEPT !.op = op, !.pc = "running", !.thread = t, !.target = h,
                            !.pending = matches]
  /\ ret' = 0
  /\ UNCHANGED << objs, shared, owned, errors, errorOut, loc, thr, roleExpr, match, kinds >>

symbol_occurrences_by_usr(h, usr, roles) ==
  Begin("symbol_occurrences_by_usr", MainThread, h, "index",
        foreachSymbolOccurrenceByUSR(usr, SymbolRoleSetOf(roles)), TRUE)

related_symbol_occurrences_by_usr(h, usr, roles) ==
  Begin("related_symbol_occurrences_by_usr", MainThread, h, "index",
        foreachRelatedSymbolOccurrenceByUSR(usr, SymbolRoleSetOf(roles)), TRUE)

symbol_occurrences_at_location(h, path, line, utf8Column, roles) ==
  Begin("symbol_occurrences_at_location", MainThread, h, "index",
        foreachSymbolOccurrenceAtLocation(path, line, utf8Column,
                                          SymbolRoleSetOf(roles)), TRUE)

indexstoredb_index_symbol_occurrences_by_usr ==
  \E h \in Handles, usr \in QueryUSRs, roles \in QueryRoles :
    symbol_occurrences_by_usr(h, usr, roles)

indexstoredb_index_related_symbol_occurrences_by_usr ==
  \E h \in Handles, usr \in QueryUSRs, roles \in QueryRoles :
    related_symbol_occurrences_by_usr(h, usr, roles)

indexstoredb_index_symbol_occurrences_at_location ==
  \E h \in Handles, l \in QueryLocations, roles \in QueryRoles :
    symbol_occurrences_at_location(h, l[1], l[2], l[3], roles)

indexstoredb_index_symbol_names ==
  \E h \in Handles :
    Begin("symbol_names", MainThread, h, "index", foreachSymbolName, FALSE)

\* A by-name query that asks the index for every occurrence of the name.
canonical_symbol_occurences_by_name_All(h, name) ==
  LET P(i) == IndexOccs[i].name = name
  IN Begin("canonical_symbol_occurences_by_name", MainThread, h, "index",
           SelectSeq(OccSeq, P), TRUE)

canonical_symbol_occurences_by_name(h, name) ==
  Begin("canonical_symbol_occurences_by_name", MainThread, h, "index",
        foreachCanonicalSymbolOccurrenceByName(name), TRUE)

\* The arguments of a pattern query with the two anchors exchanged.
PatternArgs_SwappedAnchors(pattern, aStart, aEnd, subseq, icase) ==
  [pattern |-> pattern, anchorStart |-> aEnd, anchorEnd |-> aStart,
   subsequence |-> subseq, ignoreCase |-> icase]

\* The arguments of a pattern query with the two matching modes exchanged.
PatternArgs_SwappedModes(pattern, aStart, aEnd, subseq, icase) ==
  [pattern |-> pattern, anchorStart |-> aStart, anchorEnd |-> aEnd,
   subsequence |-> icase, ignoreCase |-> subseq]

\* The pattern and the four flags as the query hands them to the index: each
\* parameter in the position of the parameter of the same name.
PatternArgs(pattern, aStart, aEnd, subseq, icase) ==
  [pattern |-> pattern, anchorStart |-> aStart, anchorEnd |-> aEnd,
   subsequence |-> subseq, ignoreCase |-> icase]

canonical_symbol_occurences_containing_pattern(h, pattern, aStart, aEnd, subseq, icase) ==
  LET a == PatternArgs(pattern, aStart, aEnd, subseq, icase)
  IN Begin("canonical_symbol_occurences_containing_pattern", MainThread, h, "index",
           foreachCanonicalSymbolOccurrenceContainingPattern(
             a.pattern, a.anchorStart, a.anchorEnd, a.subsequence, a.ignoreCase),
           TRUE)

\* The names and the patterns the matcher is tried on.
FooBazName == << "F", "o", "o", "B", "a", "z" >>
MatchNames ==
  {<< >>, BarName, FooBarName, FooBazName,
   << "b", "a", "r", "b", "a", "r" >>, << "b", "a", "r", "f", "o", "o" >>}
MatchPatterns ==
  {<< >>, << "b" >>, << "b", "a", "r" >>, << "f", "b" >>, << "B", "a", "r" >>,
   << "o", "B", "a", "r" >>, << "f", "o", "o" >>}

\* Whether a pattern query delivers the canonical occurrence of a symbol of
\* the given name: the query hands its arguments to the index, which tries
\* the name against them.
pattern_query_matches(name, pattern, aStart, aEnd, subseq, icase) ==
  LET a == PatternArgs(pattern, aStart, aEnd, subseq, icase)
  IN matchesPattern(name, a.pattern, a.anchorStart, a.anchorEnd,
                    a.subsequence, a.ignoreCase)

\* A pattern query over an index that holds one symbol of the given name.
match_symbol_name ==
  \E name \in MatchNames, pattern \in MatchPatterns,
     anchorStart \in BOOLEAN, anchorEnd \in BOOLEAN,
     subsequence \in BOOLEAN, ignoreCase \in BOOLEAN :
    /\ match' = [name |-> name, pattern |-> pattern,
                 anchorStart |-> anchorStart, anchorEnd |-> anchorEnd,
                 subsequence |-> subsequence, ignoreCase |-> ignoreCase,
                 result |-> pattern_query_matches(name, pattern, anchorStart,
                                                  anchorEnd, subsequence, ignoreCase)]
    /\ UNCHANGED << objs, shared, owned, errors, errorOut, call, ret, loc, thr, roleExpr, kinds >>

indexstoredb_index_canonical_symbol_occurences_by_name ==
  \E h \in Handles, name \in QueryNames :
    canonical_symbol_occurences_by_name(h, name)

indexstoredb_index_canonical_symbol_occurences_containing_pattern ==
  \E h \in Handles, pattern \in QueryPatterns,
     anchorStart \in BOOLEAN, anchorEnd \in BOOLEAN,
     subsequence \in BOOLEAN, ignoreCase \in BOOLEAN :
    canonical_symbol_occurences_containing_pattern(
      h, pattern, anchorStart, anchorEnd, subsequence, ignoreCase)

\* The occurrence behind an occurrence handle.
OccOf(h) == IndexOccs[shared[objs[h].value.p].data]

\* (uint64_t)obj->value->getRoles(), for object h of the heap (os, sh).
occurrence_roles(os, sh, h) == IndexOccs[sh[os[h].value.p].data].roles \cap UInt64Bits

indexstoredb_symbol_occurrence_roles(h) == occurrence_roles(objs, shared, h)

indexstoredb_symbol_occurrence_relations ==
  \E h \in Handles :
    /\ objs[h].kind = "occurrence"
    /\ Begin("symbol_occurrence_relations", MainThread, h, "occurrence",
             [k \in 1..Len(OccOf(h).rels) |-> k], TRUE)

\* A callback handed to another thread than the one running the call.
EnterCallback_OtherThread(t, kind, v, rel) ==
  /\ objs' = Append(objs, make_object(kind, v, rel))
  /\ owned' = Append(owned, 1)
  /\ call' = [call EXCEPT !.pc = "inCallback",
                          !.cbThread = CHOOSE u \in Threads : u # t,
                          !.invoked = @ + 1, !.cbObj = Len(objs) + 1,
                          !.cbPtr = v, !.pending = Tail(@)]

\* An invocation that wraps the value twice and passes the second object.
EnterCallback_TwoObjects(t, kind, v, rel) ==
  /\ objs' = Append(Append(objs, make_object(kind, v, rel)), make_object(kind, v, rel))
  /\ owned' = Append(Append(owned, 1), 1)
  /\ call' = [call EXCEPT !.pc = "inCallback", !.cbThread = t, !.invoked = @ + 1,
                          !.cbObj = Len(objs) + 2, !.cbPtr = v, !.pending = Tail(@)]

\* The callback is entered on thread t with the object make_object returns
\* for the value v; until the callback returns, one more copy of the value
\* (the lambda's parameter, the loop's variable) is alive.
EnterCallback(t, kind, v, rel) ==
  /\ objs' = Append(objs, make_object(kind, v, rel))
  /\ owned' = Append(owned, 1)
  /\ call' = [call EXCEPT !.pc = "inCallback", !.cbThread = t, !.invoked = @ + 1,
                          !.cbObj = Len(objs) + 1, !.cbPtr = v, !.pending = Tail(@)]

\* The callback returns cont; the copy of the value that lived for the
\* invocation is destroyed.
LeaveCallback(cont) ==
  /\ call.pc = "inCallback"
  /\ shared' = IF call.cbPtr = NullPtr THEN shared ELSE SharedDrop(shared, call.cbPtr)
  /\ call' = [call EXCEPT !.pc = "running", !.cbThread = 0, !.cbObj = 0,
                          !.cbPtr = NullPtr,
                          !.stoppedAt = IF cont THEN 0 ELSE call.invoked]
  /\ ret' = 0
  /\ UNCHANGED << objs, owned, errors, errorOut, loc, thr, roleExpr, match, kinds >>

\* IndexSystem's foreach loops go on to the next match only if the lambda
\* (that is, the receiver) did not return false.
ForeachMore == call.pc = "running" /\ call.pending # << >> /\ call.stoppedAt = 0

\* A relations loop that ignores what the applier returned.
RelationsMore_IgnoreStop == call.pc = "running" /\ call.pending # << >>

\* A relations loop that visits the first relation only.
RelationsMore_FirstOnly ==
  call.pc = "running" /\ call.pending # << >> /\ call.invoked = 0

\* The loop of indexstoredb_symbol_occurrence_relations: "if (!applier(..))
\* return false" leaves the loop, else it goes on while relations remain.
RelationsMore == call.pc = "running" /\ call.pending # << >> /\ call.stoppedAt = 0

\* The streaming function returns: false if a callback returned false.
Return(more) ==
  /\ call.pc = "running"
  /\ ~more
  /\ call' = [NoCall EXCEPT !.result = IF call.stoppedAt # 0 THEN "false" ELSE "true"]
  /\ ret' = 0
  /\ UNCHANGED << objs, shared, owned, errors, errorOut, loc, thr, roleExpr, match, kinds >>

\* IndexSystem hands the next matching occurrence to the query's lambda,
\* which wraps it with make_object and calls the receiver.
occurrence_lambda ==
  /\ call.op \in OccurrenceQueries
  /\ ForeachMore
  /\ LET occ == Head(call.pending)
         v == Ptr(Len(shared) + 1, 1)
     IN /\ shared' = SharedCopy(
                       Append(shared, NewPayload("SymbolOccurrence", occ,
                                                 1 + Len(IndexOccs[occ].rels))), v)
        /\ EnterCallback(call.thread, "occurrence", v, 0)
  /\ ret' = 0
  /\ UNCHANGED << errors, errorOut, loc, thr, roleExpr, match, kinds >>

occurrence_lambda_return ==
  /\ call.op \in OccurrenceQueries
  /\ \E cont \in BOOLEAN : LeaveCallback(cont)

\* The lambda of indexstoredb_index_symbol_names passes a C string; no
\* object is created.
symbol_name_lambda ==
  /\ call.op = "symbol_names"
  /\ ForeachMore
  /\ call' = [call EXCEPT !.pc = "inCallback", !.cbThread = call.thread,
                          !.invoked = @ + 1, !.pending = Tail(@)]
  /\ ret' = 0
  /\ UNCHANGED << objs, shared, owned, errors, errorOut, loc, thr, roleExpr, match, kinds >>

symbol_name_lambda_return ==
  /\ call.op = "symbol_names"
  /\ \E cont \in BOOLEAN : LeaveCallback(cont)

foreach_return ==
  /\ call.op \in IndexQueries
  /\ Return(ForeachMore)

\* The loop of indexstoredb_symbol_occurrence_relations: the loop variable
\* is a copy of the relation, make_object wraps another copy.
relations_apply ==
  /\ call.op = "symbol_occurrence_relations"
  /\ RelationsMore
  /\ LET k == Head(call.pending)
         v == Ptr(objs[call.target].value.p, 2 + k)
     IN /\ shared' = SharedCopy(SharedCopy(shared, v), v)
        /\ EnterCallback(call.thread, "relation", v, k)
  /\ ret' = 0
  /\ UNCHANGED << errors, errorOut, loc, thr, roleExpr, match, kinds >>

relations_applier_return ==
  /\ call.op = "symbol_occurrence_relations"
  /\ \E cont \in BOOLEAN : LeaveCallback(cont)

relations_return ==
  /\ call.op = "symbol_occurrence_relations"
  /\ Return(RelationsMore)

(***************************************************************************)
(* Accessors that return a new handle or a pointer.                        *)
(***************************************************************************)
\* A symbol object that takes no reference of its own on the Symbol.
NewSymbol_Borrowed(v) ==
  /\ Len(objs) < MaxObjects
  /\ Idle
  /\ Allocated(shared, v)
  /\ objs' = Append(objs, make_object("symbol", v, 0))
  /\ shared' = shared
  /\ owned' = Append(owned, 1)
  /\ ret' = Len(objs) + 1
  /\ call' = NoCall
  /\ UNCHANGED << errors, errorOut, loc, thr, roleExpr, match, kinds >>

\* make_object(obj->value->getSymbol()) / make_object(value.getSymbol())
NewSymbol(v) ==
  /\ Len(objs) < MaxObjects
  /\ Idle
  /\ Allocated(shared, v)
  /\ objs' = Append(objs, make_object("symbol", v, 0))
  /\ shared' = SharedCopy(shared, v)
  /\ owned' = Append(owned, 1)
  /\ ret' = Len(objs) + 1
  /\ call' = NoCall
  /\ UNCHANGED << errors, errorOut, loc, thr, roleExpr, match, kinds >>

\* obj->value->getUSR().c_str(), for symbol object s of the heap (os, sh):
\* the Symbol is the occurrence's own (slot 2) or that of a relation.
symbol_usr(os, sh, s) ==
  LET v == os[s].value
      occ == IndexOccs[sh[v.p].data]
  IN IF v.slot = 2 THEN occ.usr ELSE occ.rels[v.slot - 2].usr

indexstoredb_symbol_usr(s) == symbol_usr(objs, shared, s)

\* An occurrence_symbol that returns the symbol of the occurrence's first
\* relation when it has one.
symbol_occurrence_symbol_Related(h) ==
  /\ h \in Handles
  /\ objs[h].kind = "occurrence"
  /\ owned[h] > 0
  /\ NewSymbol(Ptr(objs[h].value.p, IF OccOf(h).rels = << >> THEN 2 ELSE 3))

symbol_occurrence_symbol(h) ==
  /\ h \in Handles
  /\ objs[h].kind = "occurrence"
  /\ owned[h] > 0
  /\ NewSymbol(Ptr(objs[h].value.p, 2))

symbol_relation_get_symbol(r) ==
  /\ r \in Handles
  /\ objs[r].kind = "relation"
  /\ owned[r] > 0
  /\ NewSymbol(objs[r].value)

indexstoredb_symbol_occurrence_symbol == \E h \in Handles : symbol_occurrence_symbol(h)

indexstoredb_symbol_relation_get_symbol == \E r \in Handles : symbol_relation_get_symbol(r)

\* &obj->value->getLocation(): a pointer into the occurrence.
symbol_occurrence_location(h) ==
  /\ h \in Handles
  /\ objs[h].kind = "occurrence"
  /\ owned[h] > 0
  /\ Idle
  /\ loc' = Ptr(objs[h].value.p, 1)
  /\ ret' = 0
  /\ call' = NoCall
  /\ UNCHANGED << objs, shared, owned, errors, errorOut, thr, roleExpr, match, kinds >>

indexstoredb_symbol_occurrence_location ==
  \E h \in Handles : symbol_occurrence_location(h)

(***************************************************************************)
(* Symbol kinds.                                                           *)
(***************************************************************************)
\* The constants of indexstoredb_symbol_kind_t, under the names of the
\* internal kinds (INDEXSTOREDB_SYMBOL_KIND_NAMESPACEALIAS is NamespaceAlias).
indexstoredb_symbol_kind_t ==
  [Unknown |-> 0,
   Module |-> 1,
   Namespace |-> 2,
   NamespaceAlias |-> 3,
   Macro |-> 4,
   Enum |-> 5,
   Struct |-> 6,
   Class |-> 7,
   Protocol |-> 8,
   Extension |-> 9,
   Union |-> 10,
   TypeAlias |-> 11,
   Function |-> 12,
   Variable |-> 13,
   Field |-> 14,
   EnumConstant |-> 15,
   InstanceMethod |-> 16,
   ClassMethod |-> 17,
   StaticMethod |-> 18,
   InstanceProperty |-> 19,
   ClassProperty |-> 20,
   StaticProperty |-> 21,
   Constructor |-> 22,
   Destructor |-> 23,
   ConversionFunction |-> 24,
   Parameter |-> 25,
   Using |-> 26,
   CommentTag |-> 1000]

\* The internal kinds the switch of toCSymbolKind names, and one it does not.
NamedSymbolKinds ==
  {"Unknown", "Module", "Namespace", "NamespaceAlias", "Macro", "Enum", 
   "Struct", "Class", "Protocol", "Extension", "Union", "TypeAlias", 
   "Function", "Variable", "Parameter", "Field", "EnumConstant", 
   "InstanceMethod", "ClassMethod", "StaticMethod", "InstanceProperty", 
   "ClassProperty", "StaticProperty", "Constructor", "Destructor", 
   "ConversionFunction", "CommentTag"}
SymbolKind == NamedSymbolKinds \cup {"Using"}

toCSymbolKind(K) ==
  CASE K = "Unknown" -> indexstoredb_symbol_kind_t.Unknown
    [] K = "Module" -> indexstoredb_symbol_kind_t.Module
    [] K = "Namespace" -> indexstoredb_symbol_kind_t.Namespace
    [] K = "NamespaceAlias" -> indexstoredb_symbol_kind_t.NamespaceAlias
    [] K = "Macro" -> indexstoredb_symbol_kind_t.Macro
    [] K = "Enum" -> indexstoredb_symbol_kind_t.Enum
    [] K = "Struct" -> indexstoredb_symbol_kind_t.Struct
    [] K = "Class" -> indexstoredb_symbol_kind_t.Class
    [] K = "Protocol" -> indexstoredb_symbol_kind_t.Protocol
    [] K = "Extension" -> indexstoredb_symbol_kind_t.Extension
    [] K = "Union" -> indexstoredb_symbol_kind_t.Union
    [] K = "TypeAlias" -> indexstoredb_symbol_kind_t.TypeAlias
    [] K = "Function" -> indexstoredb_symbol_kind_t.Function
    [] K = "Variable" -> indexstoredb_symbol_kind_t.Variable
    [] K = "Parameter" -> indexstoredb_symbol_kind_t.Parameter
    [] K = "Field" -> indexstoredb_symbol_kind_t.Field
    [] K = "EnumConstant" -> indexstoredb_symbol_kind_t.EnumConstant
    [] K = "InstanceMethod" -> indexstoredb_symbol_kind_t.InstanceMethod
    [] K = "ClassMethod" -> indexstoredb_symbol_kind_t.ClassMethod
    [] K = "StaticMethod" -> indexstoredb_symbol_kind_t.StaticMethod
    [] K = "InstanceProperty" -> indexstoredb_symbol_kind_t.InstanceProperty
    [] K = "ClassProperty" -> indexstoredb_symbol_kind_t.ClassProperty
    [] K = "StaticProperty" -> indexstoredb_symbol_kind_t.StaticProperty
    [] K = "Constructor" -> indexstoredb_symbol_kind_t.Constructor
    [] K = "Destructor" -> indexstoredb_symbol_kind_t.Destructor
    [] K = "ConversionFunction" -> indexstoredb_symbol_kind_t.ConversionFunction
    [] K = "CommentTag" -> indexstoredb_symbol_kind_t.CommentTag
    [] OTHER -> indexstoredb_symbol_kind_t.Unknown

\* indexstoredb_symbol_kind on a symbol of kind K.
symbol_kind(K) ==
  /\ Len(kinds) < MaxKindCalls
  /\ kinds' = Append(kinds, [kind |-> K, result |-> toCSymbolKind(K)])
  /\ UNCHANGED << objs, shared, owned, errors, errorOut, call, ret, loc, thr, roleExpr, match >>

indexstoredb_symbol_kind == \E K \in SymbolKind : symbol_kind(K)

(***************************************************************************)
(* Error objects.                                                          *)
(***************************************************************************)
\* ((IndexStoreDBError *)error)->message.c_str()
error_get_description(err) == err.message

indexstoredb_error_get_description(e) == error_get_description(errors[e])

\* A dispose that destroys every error object there is.
DeleteError_All(errs, e) ==
  [i \in DOMAIN errs |-> [errs[i] EXCEPT !.live = FALSE]]

\* if (error) delete (IndexStoreDBError *)error;
DeleteError(errs, e) ==
  IF e # 0 THEN [errs EXCEPT ![e].live = FALSE] ELSE errs

\* indexstoredb_error_dispose on null (0) or on an error the caller got and
\* has not disposed of yet.
error_dispose(e) ==
  /\ Idle
  /\ e # 0 => (e \in 1..Len(errors) /\ errors[e].live)
  /\ errors' = DeleteError(errors, e)
  /\ ret' = 0
  /\ call' = NoCall
  /\ UNCHANGED << objs, shared, owned, errorOut, loc, thr, roleExpr, match, kinds >>

indexstoredb_error_dispose == \E e \in 0..Len(errors) : error_dispose(e)

(***************************************************************************)
(* Initial state: nothing created, no call made.                           *)
(***************************************************************************)
Init ==
  /\ objs = << >>
  /\ shared = << >>
  /\ owned = << >>
  /\ errors = << >>
  /\ errorOut = 0
  /\ call = NoCall
  /\ ret = 0
  /\ loc = NullPtr
  /\ thr = [t \in Threads |-> IdleThread]
  /\ roleExpr = << >>
  /\ match = << >>
  /\ kinds = << >>

Next ==
  \/ indexstoredb_index_create
  \/ indexstoredb_retain
  \/ indexstoredb_release
  \/ indexstoredb_index_symbol_occurrences_by_usr
  \/ indexstoredb_index_related_symbol_occurrences_by_usr
  \/ indexstoredb_index_symbol_occurrences_at_location
  \/ indexstoredb_index_symbol_names
  \/ indexstoredb_index_canonical_symbol_occurences_by_name
  \/ indexstoredb_index_canonical_symbol_occurences_containing_pattern
  \/ indexstoredb_symbol_occurrence_relations
  \/ occurrence_lambda
  \/ occurrence_lambda_return
  \/ symbol_name_lambda
  \/ symbol_name_lambda_return
  \/ foreach_return
  \/ relations_apply
  \/ relations_applier_return
  \/ relations_return
  \/ indexstoredb_symbol_occurrence_symbol
  \/ indexstoredb_symbol_relation_get_symbol
  \/ indexstoredb_symbol_occurrence_location

Spec == Init /\ [][Next]_vars

\* The error channel: the calls that may fail, with and without an error
\* out-parameter, the disposal of the errors and the release of the handles.
NextErr ==
  \/ indexstoredb_index_create
  \/ indexstoredb_load_indexstore_library
  \/ indexstoredb_index_create_error
  \/ indexstoredb_load_indexstore_library_error
  \/ indexstoredb_error_dispose
  \/ indexstoredb_release

SpecErr == Init /\ [][NextErr]_vars

\* Several threads retaining and releasing the same handles.
NextThreads ==
  \/ indexstoredb_index_create
  \/ concurrent_retain_enter
  \/ concurrent_retain_return
  \/ concurrent_release_enter
  \/ concurrent_release_return

SpecThreads == Init /\ [][NextThreads]_vars

\* The evaluation of the role enumerators.
NextRoles == symbol_role_enumerator

SpecRoles == Init /\ [][NextRoles]_vars

\* The pattern matcher on its own.
NextMatch == match_symbol_name

SpecMatch == Init /\ [][NextMatch]_vars

\* The conversion of symbol kinds.
NextKinds == indexstoredb_symbol_kind

SpecKinds == Init /\ [][NextKinds]_vars

(***************************************************************************)
(* Properties.                                                             *)
(***************************************************************************)
\* The handle a step hands to the caller: the non-null result of a call
\* other than indexstoredb_retain, or the object an occurrence query passes
\* to its receiver; 0 if the step hands over nothing.
HandedOff ==
  IF call'.pc = "inCallback" /\ call.pc = "running" /\ call'.op \in OccurrenceQueries
    THEN call'.cbObj
  ELSE IF ret' # 0 /\ ~indexstoredb_retain THEN ret'
  ELSE 0

\* C1: every handle handed to the caller (by index_create,
\* load_indexstore_library, symbol_occurrence_symbol,
\* symbol_relation_get_symbol, or to the receiver of an occurrence query) is
\* an object that did not exist before the step, alive, with reference
\* count exactly 1, of which the caller owns exactly one reference; and a
\* release of a handle whose count is 1 destroys the object.
C1_HandOffNewWithCountOne ==
  /\ [][HandedOff # 0 =>
          /\ HandedOff = Len(objs) + 1
          /\ Len(objs') = Len(objs) + 1
          /\ objs'[HandedOff].live
          /\ objs'[HandedOff].rc = 1
          /\ owned'[HandedOff] = 1]_vars
  /\ [][\A h \in Handles :
          (release(h) /\ objs[h].rc = 1 /\ owned[h] = 1) =>
            (~objs'[h].live /\ objs'[h].dtor = 1 /\ owned'[h] = 0)]_vars

\* C1 witness: a symbol handle has just been returned with count 1, and a
\* handle obtained earlier has been destroyed by its release.
C1_Witness ==
  /\ ret # 0
  /\ objs[ret].kind = "symbol"
  /\ objs[ret].rc = 1
  /\ owned[ret] = 1
  /\ \E g \in Handles : ~objs[g].live /\ objs[g].dtor = 1

\* C2: for every handle the caller owns a reference of, retain returns the
\* same handle and raises the count by exactly 1, release lowers it by
\* exactly 1; the object and its wrapped payload are destroyed exactly when
\* the count reaches zero, never while it is at least 1, and at most once.
C2_RetainReleaseProtocol ==
  /\ [][\A h \in Handles :
          /\ retain(h) =>
                /\ ret' = h
                /\ objs'[h].live
                /\ objs'[h].rc = objs[h].rc + 1
                /\ shared' = shared
          /\ release(h) =>
                IF objs[h].rc = 1
                  THEN /\ ~objs'[h].live
                       /\ objs'[h].dtor = objs[h].dtor + 1
                       /\ shared'[objs[h].value.p].uses[objs[h].value.slot]
                            = shared[objs[h].value.p].uses[objs[h].value.slot] - 1
                  ELSE /\ objs'[h].live
                       /\ objs'[h].rc = objs[h].rc - 1
                       /\ shared' = shared]_vars
  /\ [](\A h \in Handles :
          /\ objs[h].dtor <= 1
          /\ objs[h].live <=> objs[h].dtor = 0
          /\ objs[h].live <=> objs[h].rc >= 1
          /\ objs[h].live => Allocated(shared, objs[h].value)
          /\ owned[h] >= 1 => objs[h].live)

\* C2 witness: one handle has count 2 after a retain, another has count 1,
\* and a third has been released to zero and destroyed.
C2_Witness ==
  /\ \E h \in Handles : objs[h].live /\ objs[h].rc = 1 /\ owned[h] = 1 /\ ret = 0
  /\ \E g \in Handles : ~objs[g].live /\ objs[g].dtor = 1
  /\ \E k \in Handles : objs[k].rc = 2

\* C3: in every streaming operation, once a callback has returned false the
\* call makes no further callback invocation: its next step is its return,
\* and it returns false.  The number of invocations is then the number of
\* the invocation that returned false (1 if the first one did), whatever
\* matches are left; and a call returns false only in this case.
C3_StopOnFalse ==
  /\ [][(call.pc = "running" /\ call.stoppedAt # 0) =>
          /\ call'.pc = "idle"
          /\ call'.result = "false"
          /\ objs' = objs]_vars
  /\ [][(call.pc = "running" /\ call'.pc = "idle") =>
          (call'.result = "false" <=> call.stoppedAt # 0)]_vars
  /\ [](call.stoppedAt # 0 => (call.pc = "running" /\ call.invoked = call.stoppedAt))

\* C3 witness: the first callback of a relations enumeration returned
\* false while a relation was still to be visited.
C3_Witness ==
  /\ call.op = "symbol_occurrence_relations"
  /\ call.pc = "running"
  /\ call.stoppedAt = 1
  /\ call.invoked = 1
  /\ call.pending # << >>

\* C4: while a streaming call runs, invocations made plus matches still to
\* deliver is constant, a call begins with no invocation made, and a call
\* none of whose callbacks returned false returns true with no match left:
\* the callback was invoked exactly once per match (zero times when there
\* is no match).  No step of a streaming call creates an error object or
\* writes the caller's error variable.
C4_ExhaustReturnsTrue ==
  /\ [][(call.pc = "idle" /\ call'.pc = "running") => call'.invoked = 0]_vars
  /\ [][(call.pc # "idle" /\ call'.pc # "idle") =>
          call'.invoked + Len(call'.pending) = call.invoked + Len(call.pending)]_vars
  /\ [][(call.pc = "running" /\ call'.pc = "idle" /\ call.stoppedAt = 0) =>
          (call'.result = "true" /\ call.pending = << >>)]_vars
  /\ [][(call.pc = "running" /\ call.pending = << >> /\ call.stoppedAt = 0) =>
          (call'.pc = "idle" /\ call'.result = "true")]_vars
  /\ [][(call.pc # "idle" \/ call'.pc # "idle") =>
          (errors' = errors /\ errorOut' = errorOut)]_vars

\* C4 witness: a relations enumeration has visited both relations, every
\* callback returned true, and the call is about to return.
C4_Witness ==
  /\ call.op = "symbol_occurrence_relations"
  /\ call.pc = "running"
  /\ call.stoppedAt = 0
  /\ call.invoked = 2
  /\ call.pending = << >>

\* What indexstoredb_index_create / load_indexstore_library (outcome ok,
\* failure message msg, error out-parameter given or not) must do.
ErrorChannel(ok, hasErr, msg) ==
  IF ok
    THEN /\ ret' # 0
         /\ objs'[ret'].live
         /\ errors' = errors
         /\ errorOut' = errorOut
    ELSE /\ ret' = 0
         /\ objs' = objs
         /\ IF hasErr
              THEN /\ Len(errors') = Len(errors) + 1
                   /\ SubSeq(errors', 1, Len(errors)) = errors
                   /\ errorOut' = Len(errors) + 1
                   /\ errors'[Len(errors) + 1].live
                   /\ error_get_description(errors'[Len(errors) + 1]) = msg
              ELSE /\ errors' = errors
                   /\ errorOut' = errorOut

\* C5: index_create and load_indexstore_library return null on failure
\* and then, if an error out-parameter was given, store in it one new
\* error object whose description is the collaborator's failure message,
\* and create no error object if none was given; on success they return a
\* live handle and leave the error variable and the error objects alone.
C5_ErrorChannel ==
  [][\A ok \in BOOLEAN, hasErr \in BOOLEAN, msg \in FailureMessages :
       /\ index_create(ok, hasErr, msg) => ErrorChannel(ok, hasErr, msg)
       /\ load_indexstore_library(ok, hasErr, msg) => ErrorChannel(ok, hasErr, msg)]_vars

\* C5 witness: a call has just failed and left a live error object with
\* the failure message in the caller's error variable.
C5_Witness ==
  /\ ret = 0
  /\ errorOut # 0
  /\ errors[errorOut].live
  /\ indexstoredb_error_get_description(errorOut) = "cannot load library"
  /\ \E h \in Handles : objs[h].kind = "index" /\ objs[h].live

\* C6: between calls, every relation object that is alive belongs to an
\* occurrence whose handle is alive: enumerating the relations of an
\* occurrence leaves no object behind once the occurrence is released.
C6_RelationsOwnedByOccurrence ==
  Idle =>
    \A r \in Handles :
      (objs[r].kind = "relation" /\ objs[r].live) =>
        \E h \in Handles :
          /\ objs[h].kind = "occurrence"
          /\ objs[h].live
          /\ objs[h].value.p = objs[r].value.p

\* The live occurrence handles that wrap payload p.
OccurrenceHandles(p) ==
  {h \in Handles : objs[h].kind = "occurrence" /\ objs[h].live /\ objs[h].value.p = p}

\* C7: indexstoredb_symbol_occurrence_location creates no object and
\* changes no count, and returns a pointer into the occurrence; the
\* storage of every occurrence whose handle has count at least 1 is
\* allocated; and the storage a location pointer refers to is allocated
\* only as long as the occurrence handle's count has not reached zero.
C7_LocationIsView ==
  /\ [][\A h \in Handles :
          symbol_occurrence_location(h) =>
            /\ objs' = objs
            /\ shared' = shared
            /\ owned' = owned
            /\ loc' = Ptr(objs[h].value.p, 1)
            /\ Allocated(shared', loc')]_vars
  /\ [](\A h \in Handles :
          (objs[h].kind = "occurrence" /\ objs[h].rc >= 1) =>
            Allocated(shared, Ptr(objs[h].value.p, 1)))
  /\ [](loc # NullPtr => (Allocated(shared, loc) <=> OccurrenceHandles(loc.p) # {}))

\* C7 witness: the caller holds a location pointer whose occurrence has
\* been released to zero; the storage it points to is gone.
C7_Witness ==
  /\ loc # NullPtr
  /\ OccurrenceHandles(loc.p) = {}
  /\ ~Allocated(shared, loc)

InRelease(h) == {t \in Threads : thr[t].pc = "release" /\ thr[t].h = h}

\* C8: under every interleaving of retain and release calls of several
\* threads, the count of a live object is the number of references held
\* (those whose release call has been entered but has not yet decremented
\* included): no increment or decrement is lost.  Each returning retain
\* adds exactly 1 and each returning release subtracts exactly 1; the
\* object is destroyed by the release that finds the count at 1 and by no
\* other, at most once, and no call is in progress on a destroyed object.
C8_AtomicRefCount ==
  /\ [](\A h \in Handles :
          /\ objs[h].dtor <= 1
          /\ objs[h].live => objs[h].rc = owned[h] + Cardinality(InRelease(h))
          /\ objs[h].live <=> owned[h] + Cardinality(InRelease(h)) >= 1
          /\ ~objs[h].live => (objs[h].dtor = 1 /\ InRetain(h) = {}))
  /\ [][\A t \in Threads :
          /\ (thread_retain_return(t) /\ thr[t].h # 0) =>
                /\ ret' = thr[t].h
                /\ objs'[thr[t].h].rc = objs[thr[t].h].rc + 1
          /\ (thread_release_return(t) /\ thr[t].h # 0) =>
                /\ ~objs'[thr[t].h].live <=> objs[thr[t].h].rc = 1
                /\ objs'[thr[t].h].live =>
                     objs'[thr[t].h].rc = objs[thr[t].h].rc - 1
                /\ ~objs'[thr[t].h].live =>
                     ~Allocated(shared', objs[thr[t].h].value)]_vars

\* C8 witness: two threads are inside release calls on the same handle and
\* both entered when the count was 2.
C8_Witness ==
  /\ \A t \in Threads : thr[t].pc = "release" /\ thr[t].observed = 2
  /\ \A t, u \in Threads : thr[t].h = thr[u].h

\* C9: a callback runs on the thread that made the call; a callback is
\* entered only from a call that is running (never after its return) and
\* belongs to that call; the call does not return while a callback runs;
\* and a call returns with matches undelivered only after a callback
\* returned false.
C9_SynchronousCallbacks ==
  /\ [](call.pc = "inCallback" =>
          (call.thread \in Threads /\ call.cbThread = call.thread))
  /\ [][call'.pc = "inCallback" =>
          /\ call.pc = "running"
          /\ call'.op = call.op
          /\ call'.thread = call.thread
          /\ call'.target = call.target]_vars
  /\ [][call.pc = "inCallback" =>
          (call'.pc = "running" /\ call'.op = call.op /\ call'.thread = call.thread)]_vars
  /\ [][(call.pc = "running" /\ call'.pc = "idle" /\ call.pending # << >>) =>
          call.stoppedAt # 0]_vars

\* C9 witness: the receiver of an occurrence query is running its second
\* invocation on the calling thread.
C9_Witness ==
  /\ call.op \in OccurrenceQueries
  /\ call.pc = "inCallback"
  /\ call.invoked = 2
  /\ call.cbThread = call.thread

\* C10: every evaluated role enumerator is a single bit: an occurrence
\* role one of bits 0-8, a relation role one of bits 9-17, the canonical
\* flag bit 63; and enumerators of different names have different values.
C10_RoleBitLayout ==
  \A i \in DOMAIN roleExpr :
    /\ roleExpr[i].name \in OccurrenceRoleNames =>
          \E k \in 0..8 : roleExpr[i].value = {k}
    /\ roleExpr[i].name \in RelationRoleNames =>
          \E k \in 9..17 : roleExpr[i].value = {k}
    /\ roleExpr[i].name = "CANONICAL" => roleExpr[i].value = {63}
    /\ \A j \in DOMAIN roleExpr :
          roleExpr[i].name # roleExpr[j].name => roleExpr[i].value # roleExpr[j].value

\* p delivers exactly the occurrences of the set K that pass the mask, each
\* once: with a non-empty mask every delivered occurrence shares a bit with
\* it, and no occurrence of K that passes is left out; the empty mask lets
\* every occurrence of K through.
DeliversFiltered(p, K, mask) ==
  /\ \A n \in DOMAIN p :
       /\ p[n] \in K
       /\ mask # {} => IndexOccs[p[n]].roles \cap mask # {}
       /\ \A m \in DOMAIN p : p[m] = p[n] => m = n
  /\ \A i \in K :
       (mask = {} \/ IndexOccs[i].roles \cap mask # {}) => \E n \in DOMAIN p : p[n] = i

\* C11: the occurrences a call of occurrences-by-USR, related-by-USR or
\* occurrences-at-location sets out to deliver are exactly those that
\* satisfy the lookup key and share a bit with the roles argument (all that
\* satisfy the key if the argument is 0); and each handle the receiver
\* gets is the next of these, its roles read by
\* indexstoredb_symbol_occurrence_roles being that occurrence's roles.
C11_RoleMaskFilter ==
  /\ [][\A h \in Handles, roles \in QueryRoles :
          /\ \A usr \in QueryUSRs :
                /\ symbol_occurrences_by_usr(h, usr, roles) =>
                     DeliversFiltered(call'.pending,
                                      {i \in OccIds : IndexOccs[i].usr = usr}, roles)
                /\ related_symbol_occurrences_by_usr(h, usr, roles) =>
                     DeliversFiltered(call'.pending,
                                      {i \in OccIds : \E k \in DOMAIN IndexOccs[i].rels :
                                                        IndexOccs[i].rels[k].usr = usr},
                                      roles)
          /\ \A l \in QueryLocations :
                symbol_occurrences_at_location(h, l[1], l[2], l[3], roles) =>
                  DeliversFiltered(call'.pending,
                                   {i \in OccIds : /\ IndexOccs[i].path = l[1]
                                                   /\ IndexOccs[i].line = l[2]
                                                   /\ IndexOccs[i].col = l[3]}, roles)]_vars
  /\ [][(call.pc = "running" /\ call'.pc = "inCallback"
          /\ call.op \in OccurrenceQueries) =>
          occurrence_roles(objs', shared', call'.cbObj)
            = IndexOccs[Head(call.pending)].roles]_vars

\* C11 witness: a by-USR query is delivering its only match, the
\* definition, of a symbol that also has a reference occurrence.
C11_Witness ==
  /\ call.op = "symbol_occurrences_by_usr"
  /\ call.pc = "inCallback"
  /\ call.invoked = 1
  /\ call.pending = << >>
  /\ 1 \in indexstoredb_symbol_occurrence_roles(call.cbObj)
  /\ \E i \in OccIds : /\ IndexOccs[i].usr = OccOf(call.cbObj).usr
                        /\ 1 \notin IndexOccs[i].roles

\* C12: the occurrences a by-USR call sets out to deliver all have the
\* query USR and are all the indexed occurrences of that USR that pass
\* the mask (for the symbol with a definition and a reference: mask
\* DEFINITION gives the definition alone, mask 0 gives both); each handle
\* the receiver gets is the next of them; and the symbol handle made from
\* an occurrence handle reads, by indexstoredb_symbol_usr, that
\* occurrence's USR.
C12_USRRoundTrip ==
  /\ [][\A h \in Handles, usr \in QueryUSRs, roles \in QueryRoles :
          symbol_occurrences_by_usr(h, usr, roles) =>
            /\ \A n \in DOMAIN call'.pending : IndexOccs[call'.pending[n]].usr = usr
            /\ \A i \in OccIds :
                 (IndexOccs[i].usr = usr
                    /\ (roles = {} \/ IndexOccs[i].roles \cap roles # {})) =>
                   \E n \in DOMAIN call'.pending : call'.pending[n] = i
            /\ (usr = "c:@F@fooBar" /\ roles = {RoleShift.DEFINITION}) =>
                 call'.pending = << 1 >>
            /\ (usr = "c:@F@fooBar" /\ roles = {}) => call'.pending = << 1, 2 >>]_vars
  /\ [][(call.pc = "running" /\ call'.pc = "inCallback"
          /\ call.op = "symbol_occurrences_by_usr") =>
          shared'[objs'[call'.cbObj].value.p].data = Head(call.pending)]_vars
  /\ [][\A h \in Handles :
          symbol_occurrence_symbol(h) =>
            symbol_usr(objs', shared', ret') = IndexOccs[shared[objs[h].value.p].data].usr]_vars

\* C12 witness: the symbol handle of a delivered reference occurrence (one
\* that has relations to another symbol) has just been returned and reads
\* the occurrence's own USR.
C12_Witness ==
  /\ ret # 0
  /\ objs[ret].kind = "symbol"
  /\ indexstoredb_symbol_usr(ret) = "c:@F@fooBar"
  /\ \E h \in Handles :
       /\ objs[h].kind = "occurrence"
       /\ objs[h].value.p = objs[ret].value.p
       /\ OccOf(h).rels # << >>

\* C13: the occurrences a canonical-by-name call sets out to deliver are
\* the occurrences of that name that carry the canonical bit, each once,
\* and no two of them belong to the same symbol (USR): of the occurrences
\* of a symbol, one of which is canonical, that one is delivered and no
\* other; each handle the receiver gets is the next of them.
C13_CanonicalByName ==
  /\ [][\A h \in Handles, name \in QueryNames :
          canonical_symbol_occurences_by_name(h, name) =>
            /\ \A n \in DOMAIN call'.pending :
                 /\ IndexOccs[call'.pending[n]].name = name
                 /\ RoleShift.CANONICAL \in IndexOccs[call'.pending[n]].roles
                 /\ \A m \in DOMAIN call'.pending :
                      IndexOccs[call'.pending[m]].usr = IndexOccs[call'.pending[n]].usr
                        => m = n
            /\ \A i \in OccIds :
                 (IndexOccs[i].name = name /\ RoleShift.CANONICAL \in IndexOccs[i].roles)
                   => \E n \in DOMAIN call'.pending : call'.pending[n] = i]_vars
  /\ [][(call.pc = "running" /\ call'.pc = "inCallback"
          /\ call.op = "canonical_symbol_occurences_by_name") =>
          /\ shared'[objs'[call'.cbObj].value.p].data = Head(call.pending)
          /\ RoleShift.CANONICAL \in occurrence_roles(objs', shared', call'.cbObj)]_vars

\* C13 witness: a canonical-by-name call is delivering its only match,
\* the canonical occurrence of a symbol that has another occurrence
\* without the canonical bit.
C13_Witness ==
  /\ call.op = "canonical_symbol_occurences_by_name"
  /\ call.pc = "inCallback"
  /\ call.invoked = 1
  /\ call.pending = << >>
  /\ RoleShift.CANONICAL \in indexstoredb_symbol_occurrence_roles(call.cbObj)
  /\ \E i \in OccIds : /\ IndexOccs[i].usr = OccOf(call.cbObj).usr
                        /\ RoleShift.CANONICAL \notin IndexOccs[i].roles

\* The characters a and b are the same to the matcher.
SameChar(a, b, ignoreCase) ==
  IF ignoreCase THEN ToLower(a) = ToLower(b) ELSE a = b

\* The pattern stands in the name at offset k.
StandsAt(pattern, name, k, ignoreCase) ==
  /\ k >= 0
  /\ k + Len(pattern) <= Len(name)
  /\ \A i \in 1..Len(pattern) : SameChar(name[k + i], pattern[i], ignoreCase)

OccursInOrder(pattern, name, ignoreCase) ==
  \E f \in [1..Len(pattern) -> 1..Len(name)] :
    /\ \A i, j \in 1..Len(pattern) : i < j => f[i] < f[j]
    /\ \A i \in 1..Len(pattern) : SameChar(name[f[i]], pattern[i], ignoreCase)

\* C15: without anchors, subsequence matching accepts a name exactly when the
\* characters of the pattern occur in it in order, not necessarily next to
\* each other, and contiguous matching exactly when the pattern stands in it
\* as a substring; ignoreCase makes either comparison case-insensitive.  Of
\* the names fooBar, FooBaz and bar, the pattern fb with subsequence and
\* ignoreCase matches fooBar and FooBaz and not bar.
C15_SubsequenceAndCase ==
  (match # << >> /\ ~match.anchorStart /\ ~match.anchorEnd) =>
    LET n == match.name
        p == match.pattern
    IN /\ match.subsequence =>
            (match.result <=> OccursInOrder(p, n, match.ignoreCase))
       /\ ~match.subsequence =>
            (match.result <=> \E k \in 0..Len(n) : StandsAt(p, n, k, match.ignoreCase))
       /\ (/\ match.subsequence /\ match.ignoreCase
           /\ p = << "f", "b" >>
           /\ n \in {FooBarName, FooBazName, BarName}) =>
            (match.result <=> n \in {FooBarName, FooBazName})

C15_Witness ==
  /\ match # << >>
  /\ ~match.anchorStart /\ ~match.anchorEnd
  /\ match.subsequence /\ match.ignoreCase
  /\ match.pattern = << "f", "b" >>
  /\ match.name = FooBazName
  /\ match.result

\* C16: indexstoredb_retain and indexstoredb_release on a null handle change
\* no object, no payload and no reference the caller holds, whatever other
\* calls are under way; the retain returns null.
C16_NullHandleNoOp ==
  [][\A t \in Threads :
       /\ (thread_retain_enter(t, 0) \/ thread_release_enter(t, 0)) =>
             UNCHANGED << objs, shared, owned, errors, errorOut, ret >>
       /\ (thr[t].h = 0 /\ thread_retain_return(t)) =>
             /\ ret' = 0
             /\ UNCHANGED << objs, shared, owned, errors, errorOut >>
       /\ (thr[t].h = 0 /\ thread_release_return(t)) =>
             UNCHANGED << objs, shared, owned, errors, errorOut >>]_vars

\* C16 witness: while a live object exists, one thread is inside a retain
\* and another inside a release of the null handle.
C16_Witness ==
  /\ \E h \in Handles : objs[h].live /\ objs[h].rc = 1
  /\ \E t, u \in Threads :
        /\ thr[t].pc = "retain" /\ thr[t].h = 0
        /\ thr[u].pc = "release" /\ thr[u].h = 0

\* C17: an error object stays alive, with the message it was created with,
\* from the failing call that returned it until indexstoredb_error_dispose
\* is called on it; that one call destroys it and no other error; no other
\* operation destroys it; indexstoredb_error_dispose(null) changes nothing.
C17_ErrorLifetime ==
  /\ [][\A e \in 1..Len(errors) :
          errors[e].live =>
            IF error_dispose(e)
              THEN /\ ~errors'[e].live
                   /\ \A f \in 1..Len(errors) : f # e => errors'[f] = errors[f]
              ELSE /\ errors'[e].live
                   /\ error_get_description(errors'[e])
                        = error_get_description(errors[e])]_vars
  /\ [][error_dispose(0) =>
          UNCHANGED << errors, errorOut, objs, shared, owned >>]_vars

\* C17 witness: of two errors the caller got, the first has been disposed of
\* and the second is alive with its message, after a handle was created and
\* released.
C17_Witness ==
  /\ Len(errors) = 2
  /\ ~errors[1].live
  /\ errors[2].live
  /\ indexstoredb_error_get_description(2) = "cannot open store"
  /\ \E h \in Handles : ~objs[h].live

\* C18: an error object is a reference-counted handle: it is an object with
\* a count of at least 1 while it is alive, and it is destroyed only by an
\* indexstoredb_release that takes its count to zero.
C18_ErrorIsRefCounted ==
  [][\A e \in 1..Len(errors) :
       (errors[e].live /\ ~errors'[e].live) =>
          \E h \in Handles : /\ release(h)
                              /\ objs[h].kind = "error"
                              /\ objs[h].rc = 1]_vars

\* The objects that are alive in a heap.
LiveObjects(os) == {h \in 1..Len(os) : os[h].live}

C20_SymbolKindMapping ==
  /\ \A i \in DOMAIN kinds :
        /\ kinds[i].kind \in NamedSymbolKinds =>
              kinds[i].result = indexstoredb_symbol_kind_t[kinds[i].kind]
        /\ kinds[i].kind \notin NamedSymbolKinds =>
              kinds[i].result = indexstoredb_symbol_kind_t.Unknown
        /\ \A j \in DOMAIN kinds :
              (/\ kinds[i].kind \in NamedSymbolKinds
               /\ kinds[j].kind \in NamedSymbolKinds
               /\ kinds[i].kind # kinds[j].kind) =>
                 kinds[i].result # kinds[j].result
  /\ Len(kinds) = MaxKindCalls =>
        \A c \in DOMAIN indexstoredb_symbol_kind_t :
          \E K \in SymbolKind : toCSymbolKind(K) = indexstoredb_symbol_kind_t[c]

\* What a call that returns the symbol of object h must do: hand over a new
\* symbol object with count 1 that refers to allocated storage, and leave
\* every object there was, the payload of h included, as it was.
YieldsOwnSymbol(h) ==
  /\ ret' = Len(objs) + 1
  /\ Len(objs') = Len(objs) + 1
  /\ SubSeq(objs', 1, Len(objs)) = objs
  /\ objs'[ret'].kind = "symbol" /\ objs'[ret'].live /\ objs'[ret'].rc = 1
  /\ Allocated(shared', objs'[ret'].value)
  /\ shared'[objs[h].value.p].uses[1] = shared[objs[h].value.p].uses[1]

\* The symbol handles with count at least 1 other than h.
SymbolHandlesBut(h) ==
  {s \in Handles \ {h} : objs[s].kind = "symbol" /\ objs[s].rc >= 1}

\* C21: indexstoredb_symbol_occurrence_symbol and
\* indexstoredb_symbol_relation_get_symbol each return a new symbol handle
\* with count 1 and change no count of the occurrence or relation; the
\* Symbol of a symbol handle with count at least 1 is allocated, whatever
\* happened to the occurrence; a release of any other handle, the
\* occurrence's last one included, leaves the symbol handle, its storage
\* and its USR as they were; the symbol handle dies when its own count
\* reaches zero.
C21_SymbolOwnedIndependently ==
  /\ [][\A h \in Handles :
          /\ symbol_occurrence_symbol(h) => YieldsOwnSymbol(h)
          /\ symbol_relation_get_symbol(h) => YieldsOwnSymbol(h)
          /\ release(h) =>
                /\ \A s \in SymbolHandlesBut(h) :
                      /\ objs'[s] = objs[s]
                      /\ Allocated(shared', objs'[s].value)
                      /\ symbol_usr(objs', shared', s) = symbol_usr(objs, shared, s)
                /\ (objs[h].kind = "symbol" /\ objs[h].rc = 1) => ~objs'[h].live]_vars
  /\ [](\A s \in Handles :
          (objs[s].kind = "symbol" /\ objs[s].rc >= 1) =>
             (objs[s].live /\ Allocated(shared, objs[s].value)))

\* C21 witness: two symbol handles obtained from one occurrence are alive
\* with count 1 after the occurrence was released to zero and destroyed.
C21_Witness ==
  \E s, t \in Handles :
    /\ s # t
    /\ objs[s].kind = "symbol" /\ objs[t].kind = "symbol"
    /\ objs[s].rc = 1 /\ objs[t].rc = 1
    /\ objs[s].value = objs[t].value
    /\ indexstoredb_symbol_usr(s) = "c:@F@fooBar"
    /\ OccurrenceHandles(objs[s].value.p) = {}
    /\ ~Allocated(shared, Ptr(objs[s].value.p, 1))

\* The occurrence and symbol handles with count at least 1.
DeliveredHandles ==
  {h \in Handles : objs[h].kind \in {"occurrence", "symbol"} /\ objs[h].rc >= 1}

\* What object h of the heap (os, sh) lets its holder read.
Readable(os, sh, h) ==
  IF os[h].kind = "occurrence" THEN occurrence_roles(os, sh, h)
  ELSE symbol_usr(os, sh, h)

\* C22: a release of the index handle, the one that takes its count to zero
\* included, leaves every occurrence and symbol handle with count at least 1
\* as it was, its payload allocated and readable with the same content; such
\* a handle is alive with its payload allocated whether or not the index
\* is; and a release of an occurrence or symbol handle changes neither the
\* index object nor its payload.
C22_IndexReleaseKeepsHandles ==
  /\ [][\A i \in Handles :
          (objs[i].kind = "index" /\ release(i)) =>
            \A h \in DeliveredHandles :
              /\ objs'[h] = objs[h]
              /\ Allocated(shared', objs'[h].value)
              /\ shared'[objs[h].value.p] = shared[objs[h].value.p]
              /\ Readable(objs', shared', h) = Readable(objs, shared, h)]_vars
  /\ [][\A h \in DeliveredHandles :
          release(h) =>
            \A i \in Handles :
              objs[i].kind = "index" =>
                /\ objs'[i] = objs[i]
                /\ shared'[objs[i].value.p] = shared[objs[i].value.p]]_vars
  /\ [](\A h \in DeliveredHandles :
          objs[h].live /\ Allocated(shared, objs[h].value))

\* C22 witness: the index has been released to zero and destroyed, its
\* payload with it, while an occurrence handle and a symbol handle it
\* delivered are alive with count 1.
C22_Witness ==
  /\ \A i \in Handles : objs[i].kind # "index"
  /\ \E i \in Handles :
        /\ ~objs[i].live /\ objs[i].dtor = 1
        /\ shared[1].type = "IndexSystem" /\ shared[1].uses[1] = 0
  /\ \E h, s \in DeliveredHandles :
        /\ objs[h].kind = "occurrence" /\ objs[h].rc = 1
        /\ objs[s].kind = "symbol" /\ objs[s].rc = 1
        /\ objs[s].value.p = objs[h].value.p

====
